---- MODULE Spec2Model ----
(***************************************************************************)
(* django_hana/base.py: the SAP HANA database backend for Django.          *)
(*                                                                         *)
(* The model covers DatabaseWrapper (connection lifecycle, transaction     *)
(* management) and CursorWrapper / CursorDebugWrapper (placeholder         *)
(* translation, error mapping, query log, iteration).                      *)
(*                                                                         *)
(* Texts (SQL, messages) are sequences of one-character or token strings.  *)
(* The driver (pyhdb) and Django's base wrapper are the environment: a     *)
(* driver session is a record in `sessions`, and the driver calls a        *)
(* handler makes are recorded, in order, in last.calls.  Driver calls      *)
(* other than cursor.execute / cursor.executemany return normally.         *)
(* The interpreter is Python 3 (setup.py requires django~=2.2.0).          *)
(***************************************************************************)
EXTENDS Naturals, Sequences, FiniteSets, TLC

VARIABLES
    settings_dict,      \* DatabaseWrapper.settings_dict: NAME, USER, PASSWORD, HOST, PORT
    connection,         \* DatabaseWrapper.connection: 0 is None, else an index into sessions
    sessions,           \* the driver sessions opened so far, in order of Database.connect
    transaction_state,  \* DatabaseWrapper.transaction_state: one flag per open block
    _dirty,             \* DatabaseWrapper._dirty
    queries,            \* DatabaseWrapper.queries: the query log
    cursor,             \* the cursor wrapper in use (session 0: none created yet)
    rows,               \* rows of the driver cursor's result set not fetched yet
    iterator,           \* the iterator last returned by CursorWrapper.__iter__
    last,               \* what the last operation was given, did and returned
    uncommitted,        \* history: a statement ran with autocommit off, not resolved since
    result,             \* history: the result set the last statement produced
    yielded,            \* history: the rows iteration has yielded from that result set
    traversals,         \* history: the calls of __iter__ since the last statement
    abandoned           \* history: a traversal was dropped before it was exhausted

vars == <<settings_dict, connection, sessions, transaction_state, _dirty, queries,
          cursor, rows, iterator, last, uncommitted, result, yielded, traversals,
          abandoned>>

\* ---------------------------------------------------------------- bounds

MaxSessions == 2    \* driver sessions opened in one behaviour
MaxDepth == 2       \* nested transaction-management blocks
MaxLog == 2         \* entries in the query log
MaxSqlLen == 4      \* characters of an SQL text
MaxRows == 2        \* rows of a result set
MaxTraversals == 2  \* calls of __iter__ per result set

\* ---------------------------------------------------------------- texts

Chars == {"%", "s", "?"}

SeqsUpTo(S, n) == UNION {[1..k -> S] : k \in 0..n}

AllSql == SeqsUpTo(Chars, MaxSqlLen)

SampleSql == {<<"%", "s", "?">>}

IsPrefix(s, t) == Len(s) <= Len(t) /\ SubSeq(t, 1, Len(s)) = s

Front(s) == SubSeq(s, 1, Len(s) - 1)

\* Whether `old` occurs in s at position i.
OccursAt(s, old, i) ==
    /\ i >= 1
    /\ i + Len(old) - 1 <= Len(s)
    /\ SubSeq(s, i, i + Len(old) - 1) = old

\* A replace that stops after the first occurrence (str.replace(old, new, 1)).
RECURSIVE StrReplaceFirstOnly(_, _, _)
StrReplaceFirstOnly(s, old, new) ==
    IF Len(s) = 0 THEN <<>>
    ELSE IF OccursAt(s, old, 1)
         THEN new \o SubSeq(s, Len(old) + 1, Len(s))
         ELSE <<Head(s)>> \o StrReplaceFirstOnly(Tail(s), old, new)

\* Python's str.replace(old, new) for a non-empty old: the occurrences are
\* found left to right, each search starting after the previous match.
RECURSIVE StrReplace(_, _, _)
StrReplace(s, old, new) ==
    IF Len(s) = 0 THEN <<>>
    ELSE IF OccursAt(s, old, 1)
         THEN new \o StrReplace(SubSeq(s, Len(old) + 1, Len(s)), old, new)
         ELSE <<Head(s)>> \o StrReplace(Tail(s), old, new)

\* CursorWrapper._replace_params
_replace_params(sql) == StrReplace(sql, <<"%", "s">>, <<"?">>)

\* ---------------------------------------------------------------- driver errors

\* CursorWrapper.codes_for_integrityerror
codes_for_integrityerror == {301}

\* What a driver cursor call does: returns (cls "ok") or raises a driver error,
\* an instance of Database.Error with a class, an error code and args.
DriverOk == [cls |-> "ok", code |-> 0, args |-> <<>>]

DriverErrorClasses == {"IntegrityError", "DatabaseError", "Error"}

DriverErrors ==
    [cls : DriverErrorClasses, code : {301, 257}, args : {<<"msg", "pos">>}]

SampleErrors == {[cls |-> "DatabaseError", code |-> 257, args |-> <<"msg", "pos">>]}

\* e[0] on an exception object.  Under Python 3 BaseException has no
\* __getitem__, so the subscript raises TypeError whatever e holds.
ExcGetItem(e) == [exc |-> "TypeError", value |-> 0]

\* The except clauses of CursorWrapper.execute and CursorWrapper.executemany:
\* what the wrapper raises for the driver's outcome.
ReraiseDriverError(out) ==
    IF out.cls = "ok" THEN [exc |-> "None", args |-> <<>>]
    ELSE IF out.cls = "IntegrityError"
         THEN [exc |-> "IntegrityError", args |-> out.args]
         ELSE LET code == ExcGetItem(out) IN
              IF code.exc # "None"
              THEN [exc |-> code.exc, args |-> <<"object is not subscriptable">>]
              ELSE IF code.value \in codes_for_integrityerror
                   THEN [exc |-> "IntegrityError", args |-> out.args]
                   ELSE [exc |-> "DatabaseError", args |-> out.args]

\* CursorWrapper.execute: the text sent to the driver cursor and what is raised.
CursorWrapper_execute(sql, out) ==
    LET r == ReraiseDriverError(out) IN
    [sent |-> _replace_params(sql), exc |-> r.exc, args |-> r.args]

\* CursorWrapper.executemany
CursorWrapper_executemany(sql, out) ==
    LET r == ReraiseDriverError(out) IN
    [sent |-> _replace_params(sql), exc |-> r.exc, args |-> r.args]

\* ---------------------------------------------------------------- connection

SettingKeys == {"NAME", "USER", "PASSWORD", "HOST", "PORT"}

\* The values a setting may hold; "" is Django's default for a setting not given.
SettingValues(k) ==
    IF k = "PORT" THEN {"", "30015", "http"} ELSE {"", "v"}

\* The texts int() accepts.
NumericTexts == {"30015"}

\* A driver session as Database.connect returns it.
NewSession == [closed |-> FALSE, autocommit |-> FALSE, closeCalls |-> 0]

\* DatabaseWrapper.get_connection_params: raises without NAME, and leaves out
\* of conn_params every other setting that is empty.
get_connection_params(settings) ==
    IF settings["NAME"] = ""
    THEN [exc |-> "ImproperlyConfigured", args |-> <<"Please supply the NAME value.">>,
          conn_params |-> {}]
    ELSE [exc |-> "None", args |-> <<>>,
          conn_params |->
              (IF settings["USER"] # "" THEN {"user"} ELSE {})
              \cup (IF settings["PASSWORD"] # "" THEN {"password"} ELSE {})
              \cup (IF settings["HOST"] # "" THEN {"host"} ELSE {})
              \cup (IF settings["PORT"] # "" THEN {"port"} ELSE {})]

\* DatabaseWrapper.get_new_connection, given the keys conn_params holds.  The
\* arguments of Database.connect are evaluated in order (host, int(port), user,
\* password) before the call: a missing key raises KeyError and a port that is
\* no number ValueError, and then connect is not called.
get_new_connection(conn_params, settings, sess) ==
    LET fail(e, a) == [exc |-> e, args |-> <<a>>, calls |-> <<>>,
                       sessions |-> sess, conn |-> 0]
    IN  IF "host" \notin conn_params THEN fail("KeyError", "host")
        ELSE IF "port" \notin conn_params THEN fail("KeyError", "port")
        ELSE IF settings["PORT"] \notin NumericTexts
             THEN fail("ValueError", "invalid literal for int()")
        ELSE IF "user" \notin conn_params THEN fail("KeyError", "user")
        ELSE IF "password" \notin conn_params THEN fail("KeyError", "password")
        ELSE [exc |-> "None", args |-> <<>>,
              \* Database.connect, then set_default_schema's cursor().execute
              calls |-> <<"connect", "set_schema">>,
              sessions |-> Append(sess, NewSession), conn |-> Len(sess) + 1]

\* DatabaseWrapper._set_autocommit: connection.setautocommit(autocommit)
_set_autocommit(sess, conn, autocommit) ==
    [sess EXCEPT ![conn].autocommit = autocommit]

\* Connecting, as the base wrapper's connect() does it: get_connection_params,
\* get_new_connection, then autocommit switched on (the AUTOCOMMIT default) and
\* init_connection_state, which does nothing.
connect(sess) ==
    LET p == get_connection_params(settings_dict) IN
    IF p.exc # "None"
    THEN [exc |-> p.exc, args |-> p.args, calls |-> <<>>, sessions |-> sess,
          connection |-> 0]
    ELSE LET n == get_new_connection(p.conn_params, settings_dict, sess) IN
         IF n.exc # "None"
         THEN [exc |-> n.exc, args |-> n.args, calls |-> n.calls,
               sessions |-> sess, connection |-> 0]
         ELSE [exc |-> "None", args |-> <<>>,
               calls |-> n.calls \o <<"setautocommit">>,
               sessions |-> _set_autocommit(n.sessions, n.conn, TRUE),
               connection |-> n.conn]

\* ensure_connection(): connects when the wrapper holds no session.
ensure_connection(conn, sess) ==
    IF conn # 0
    THEN [exc |-> "None", args |-> <<>>, calls |-> <<>>, sessions |-> sess,
          connection |-> conn]
    ELSE connect(sess)

\* An operation that may have to connect is taken only while the model can
\* still open a session.
CanConnect == connection # 0 \/ Len(sessions) < MaxSessions

\* A close that does not reset self.connection.
close_keeps_connection(conn, sess) ==
    IF conn = 0
    THEN [connection |-> 0, sessions |-> sess, calls |-> <<>>]
    ELSE [connection |-> conn,
          sessions |-> [sess EXCEPT ![conn].closed = TRUE,
                                    ![conn].closeCalls = @ + 1],
          calls |-> <<"close">>]

\* DatabaseWrapper.close (validate_thread_sharing passes: one thread).
close(conn, sess) ==
    IF conn = 0
    THEN [connection |-> 0, sessions |-> sess, calls |-> <<>>]
    ELSE [connection |-> 0,
          sessions |-> [sess EXCEPT ![conn].closed = TRUE,
                                    ![conn].closeCalls = @ + 1],
          calls |-> <<"close">>]

\* DatabaseWrapper.is_usable: not self.connection.closed
is_usable(conn, sess) ==
    IF conn = 0
    THEN [exc |-> "AttributeError", ret |-> "None"]
    ELSE [exc |-> "None", ret |-> IF sess[conn].closed THEN "False" ELSE "True"]

\* ---------------------------------------------------------------- transactions

\* DatabaseFeatures.uses_autocommit
uses_autocommit == TRUE

\* DatabaseWrapper._enter_transaction_management
_enter_transaction_management(managed, conn, sess) ==
    LET c == ensure_connection(conn, sess) IN
    IF c.exc # "None" THEN c
    ELSE IF uses_autocommit /\ managed
         THEN [c EXCEPT !.calls = @ \o <<"setautocommit">>,
                        !.sessions = _set_autocommit(c.sessions, c.connection, FALSE)]
         ELSE c

\* rollback() of the base wrapper: connection.rollback() when a session is
\* held, then the dirty flag is cleared.
rollback(conn) == IF conn # 0 THEN <<"rollback">> ELSE <<>>

\* DatabaseWrapper._commit
_commit(conn) == IF conn # 0 THEN <<"commit">> ELSE <<>>

\* DatabaseWrapper.set_dirty: pass
set_dirty(dirty) == dirty

\* The try block of DatabaseWrapper.leave_transaction_management pops the
\* block or raises, then rolls back and raises when dirty; the finally clause
\* calls self.connection.setautocommit(auto=True), which raises AttributeError
\* on None and so replaces what the try block raised; _dirty is cleared only
\* when nothing was raised.
TryLeave(stack, dirty, conn) ==
    IF Len(stack) = 0
    THEN [exc |-> "TransactionManagementError",
          args |-> <<"This code isn't under transaction management">>,
          stack |-> stack, dirty |-> dirty, calls |-> <<>>]
    ELSE IF dirty
         THEN [exc |-> "TransactionManagementError",
               args |-> <<"Transaction managed block ended with pending COMMIT/ROLLBACK">>,
               stack |-> Front(stack), dirty |-> FALSE, calls |-> rollback(conn)]
         ELSE [exc |-> "None", args |-> <<>>, stack |-> Front(stack),
               dirty |-> dirty, calls |-> <<>>]

\* A leave_transaction_management without its finally clause.
leave_transaction_management_no_restore(stack, dirty, conn, sess) ==
    LET t == TryLeave(stack, dirty, conn) IN
    [exc |-> t.exc, args |-> t.args, stack |-> t.stack,
     dirty |-> IF t.exc = "None" THEN FALSE ELSE t.dirty,
     calls |-> t.calls, sessions |-> sess]

\* DatabaseWrapper.leave_transaction_management: TryLeave, then finally.
leave_transaction_management(stack, dirty, conn, sess) ==
    LET t == TryLeave(stack, dirty, conn) IN
    IF conn = 0
    THEN [exc |-> "AttributeError", args |-> <<"setautocommit">>,
          stack |-> t.stack, dirty |-> t.dirty, calls |-> t.calls,
          sessions |-> sess]
    ELSE [exc |-> t.exc, args |-> t.args, stack |-> t.stack,
          dirty |-> IF t.exc = "None" THEN FALSE ELSE t.dirty,
          calls |-> t.calls \o <<"setautocommit">>,
          sessions |-> _set_autocommit(sess, conn, TRUE)]

\* ---------------------------------------------------------------- cursors

NoCursor == [session |-> 0, debug |-> FALSE, native |-> FALSE]

NoIterator == [kind |-> "none", buf |-> <<>>, done |-> FALSE]

\* The values a bind parameter may hold: a plain value or a Database.Blob.
ParamValues == {"1", "Blob"}

SampleParams == {<<"1">>, <<"Blob">>}

\* param_list of executemany: a list of n parameter tuples, or an iterator.
ParamLists == {[kind |-> "list", n |-> 2], [kind |-> "iterator", n |-> 0]}

\* The result sets a statement may produce: rows 1..k.
RowSets == {[i \in 1..k |-> i] : k \in 0..MaxRows}

\* CursorWrapper.set_dirty: get_autocommit() makes sure of a connection, and
\* with autocommit off the wrapper's set_dirty is called.
CursorWrapper_set_dirty(conn, sess, dirty) ==
    LET c == ensure_connection(conn, sess) IN
    [exc |-> c.exc, args |-> c.args, calls |-> c.calls, sessions |-> c.sessions,
     connection |-> c.connection,
     dirty |-> IF c.exc = "None" /\ ~c.sessions[c.connection].autocommit
               THEN set_dirty(dirty) ELSE dirty]

\* sanitize_blob of CursorDebugWrapper.execute
sanitize_blob(value) == IF value = "Blob" THEN "bytes" ELSE value

\* ops.last_executed_query (django_hana/operations.py): the text of the
\* statement with its parameters substituted for the placeholders in order.
RECURSIVE last_executed_query(_, _)
last_executed_query(sql, params) ==
    IF Len(sql) = 0 THEN <<>>
    ELSE IF OccursAt(sql, <<"%", "s">>, 1) /\ Len(params) > 0
         THEN <<Head(params)>> \o last_executed_query(SubSeq(sql, 3, Len(sql)), Tail(params))
         ELSE <<Head(sql)>> \o last_executed_query(Tail(sql), params)

\* len(param_list), or '?' for an iterator, as '%s' formats it.
TimesText(plist) ==
    IF plist.kind = "iterator" THEN "?"
    ELSE IF plist.n = 0 THEN "0"
    ELSE IF plist.n = 1 THEN "1"
    ELSE IF plist.n = 2 THEN "2" ELSE "n"

\* The query log entry CursorDebugWrapper.execute appends.
ExecuteEntry(sql, params) ==
    [sql |-> last_executed_query(sql, [i \in 1..Len(params) |-> sanitize_blob(params[i])])]

\* The query log entry CursorDebugWrapper.executemany appends.
ExecutemanyEntry(sql, plist) ==
    [sql |-> <<TimesText(plist), " times: ">> \o sql]

\* An append placed after the delegated call instead of in finally.
AppendOnSuccess(log, entry, exc) ==
    IF exc = "None" THEN Append(log, entry) ELSE log

\* The finally clause of CursorDebugWrapper.execute / executemany: the entry
\* is appended whatever the delegated call did.
DebugFinally(log, entry, exc) == Append(log, entry)

\* An __iter__ whose fallback calls fetchall() and iterates nothing.
IterIgnoresFetchall(cur, rws) ==
    IF cur.native
    THEN [iterator |-> [kind |-> "native", buf |-> <<>>, done |-> FALSE], rows |-> rws]
    ELSE [iterator |-> [kind |-> "list", buf |-> <<>>, done |-> FALSE], rows |-> <<>>]

\* CursorWrapper.__iter__: iter(self.cursor), or iter(self.cursor.fetchall())
\* when the driver cursor is not iterable.  fetchall takes every unfetched row.
CursorWrapper_iter(cur, rws) ==
    IF cur.native
    THEN [iterator |-> [kind |-> "native", buf |-> <<>>, done |-> FALSE], rows |-> rws]
    ELSE [iterator |-> [kind |-> "list", buf |-> rws, done |-> FALSE], rows |-> <<>>]

\* ---------------------------------------------------------------- operations

NoLast ==
    [op |-> "init", exc |-> "None", args |-> <<>>, ret |-> "None", pre |-> 0,
     calls |-> <<>>, sql |-> <<>>, params |-> <<>>, plist |-> [kind |-> "list", n |-> 0],
     sent |-> <<>>, derr |-> DriverOk, debug |-> FALSE, managed |-> FALSE,
     depth |-> 0, dirty |-> FALSE, autopre |-> FALSE, qpre |-> <<>>, row |-> 0]

\* The fields every operation records.
Called(op) ==
    [NoLast EXCEPT !.op = op, !.pre = connection, !.depth = Len(transaction_state),
                   !.dirty = _dirty, !.qpre = queries,
                   !.autopre = (connection # 0 /\ sessions[connection].autocommit)]

Init ==
    /\ settings_dict \in {f \in [SettingKeys -> {"", "v", "30015", "http"}] :
                             \A k \in SettingKeys : f[k] \in SettingValues(k)}
    /\ connection = 0
    /\ sessions = <<>>
    /\ transaction_state = <<>>
    /\ _dirty = FALSE
    /\ queries = <<>>
    /\ cursor = NoCursor
    /\ rows = <<>>
    /\ iterator = NoIterator
    /\ last = NoLast
    /\ uncommitted = FALSE
    /\ result = <<>>
    /\ yielded = <<>>
    /\ traversals = 0
    /\ abandoned = FALSE

\* connect() / ensure_connection() on a wrapper that holds no session.
Connect ==
    /\ connection = 0
    /\ Len(sessions) < MaxSessions
    /\ LET c == connect(sessions) IN
       /\ connection' = c.connection
       /\ sessions' = c.sessions
       /\ last' = [Called("connect") EXCEPT !.exc = c.exc, !.args = c.args,
                                            !.calls = c.calls]
    /\ UNCHANGED <<settings_dict, transaction_state, _dirty, queries, cursor, rows,
                   iterator, uncommitted, result, yielded, traversals, abandoned>>

Close ==
    /\ LET c == close(connection, sessions) IN
       /\ connection' = c.connection
       /\ sessions' = c.sessions
       /\ last' = [Called("close") EXCEPT !.calls = c.calls]
    /\ UNCHANGED <<settings_dict, transaction_state, _dirty, queries, cursor, rows,
                   iterator, uncommitted, result, yielded, traversals, abandoned>>

\* The server or the network ends the session underneath the wrapper.
DriverDrop ==
    /\ connection # 0
    /\ ~sessions[connection].closed
    /\ sessions' = [sessions EXCEPT ![connection].closed = TRUE]
    /\ last' = Called("driver_drop")
    /\ UNCHANGED <<settings_dict, connection, transaction_state, _dirty, queries,
                   cursor, rows, iterator, uncommitted, result, yielded, traversals, abandoned>>

IsUsable ==
    /\ LET u == is_usable(connection, sessions) IN
       last' = [Called("is_usable") EXCEPT !.exc = u.exc, !.ret = u.ret]
    /\ UNCHANGED <<settings_dict, connection, sessions, transaction_state, _dirty,
                   queries, cursor, rows, iterator, uncommitted, result, yielded,
                   traversals, abandoned>>

\* enter_transaction_management(managed): the block is pushed on
\* transaction_state and _enter_transaction_management is called.
EnterTransactionManagement(managed) ==
    /\ Len(transaction_state) < MaxDepth
    /\ CanConnect
    /\ transaction_state' = Append(transaction_state, managed)
    /\ LET e == _enter_transaction_management(managed, connection, sessions) IN
       /\ connection' = e.connection
       /\ sessions' = e.sessions
       /\ last' = [Called("enter") EXCEPT !.exc = e.exc, !.args = e.args,
                                          !.calls = e.calls, !.managed = managed]
    /\ UNCHANGED <<settings_dict, _dirty, queries, cursor, rows, iterator,
                   uncommitted, result, yielded, traversals, abandoned>>

LeaveTransactionManagement ==
    /\ LET l == leave_transaction_management(transaction_state, _dirty, connection,
                                             sessions) IN
       /\ transaction_state' = l.stack
       /\ _dirty' = l.dirty
       /\ sessions' = l.sessions
       /\ last' = [Called("leave") EXCEPT !.exc = l.exc, !.args = l.args,
                                          !.calls = l.calls]
       \* autocommit is on again on the session the wrapper holds
       /\ uncommitted' = IF connection # 0 THEN FALSE ELSE uncommitted
    /\ UNCHANGED <<settings_dict, connection, queries, cursor, rows, iterator,
                   result, yielded, traversals, abandoned>>

\* commit(): _commit, then the dirty flag is cleared.
Commit ==
    /\ _dirty' = FALSE
    /\ uncommitted' = FALSE
    /\ last' = [Called("commit") EXCEPT !.calls = _commit(connection)]
    /\ UNCHANGED <<settings_dict, connection, sessions, transaction_state, queries,
                   cursor, rows, iterator, result, yielded, traversals, abandoned>>

\* rollback(): connection.rollback(), then the dirty flag is cleared.
Rollback ==
    /\ _dirty' = FALSE
    /\ uncommitted' = FALSE
    /\ last' = [Called("rollback") EXCEPT !.calls = rollback(connection)]
    /\ UNCHANGED <<settings_dict, connection, sessions, transaction_state, queries,
                   cursor, rows, iterator, result, yielded, traversals, abandoned>>

\* cursor(): a connection is made sure of, then create_cursor wraps a driver
\* cursor in a CursorWrapper and, for debug, make_debug_cursor in a
\* CursorDebugWrapper.  `native` says whether the driver cursor is iterable.
CreateCursor(debug, native) ==
    /\ CanConnect
    /\ LET c == ensure_connection(connection, sessions) IN
       /\ connection' = c.connection
       /\ sessions' = c.sessions
       /\ cursor' = IF c.exc = "None"
                    THEN [session |-> c.connection, debug |-> debug, native |-> native]
                    ELSE cursor
       /\ rows' = IF c.exc = "None" THEN <<>> ELSE rows
       /\ iterator' = IF c.exc = "None" THEN NoIterator ELSE iterator
       /\ last' = [Called("cursor") EXCEPT !.exc = c.exc, !.args = c.args,
                                           !.calls = c.calls, !.debug = debug]
       /\ result' = IF c.exc = "None" THEN <<>> ELSE result
       /\ yielded' = IF c.exc = "None" THEN <<>> ELSE yielded
       /\ traversals' = IF c.exc = "None" THEN 0 ELSE traversals
       /\ abandoned' = IF c.exc = "None" THEN FALSE ELSE abandoned
    /\ UNCHANGED <<settings_dict, transaction_state, _dirty, queries, uncommitted>>

\* execute (many = FALSE) or executemany (many = TRUE) on the cursor wrapper in
\* use.  `out` is what the driver cursor does with the statement and `res` the
\* result set it produces when it succeeds; on a closed session it raises.
\* A CursorDebugWrapper first calls set_dirty, then delegates to CursorWrapper
\* inside try, and appends the log entry in finally.  The caller drops the
\* iterator of the previous statement.
Run(many, sql, params, plist, out, res) ==
    /\ cursor.session # 0
    /\ sessions[cursor.session].closed => out # DriverOk
    /\ cursor.debug => CanConnect /\ Len(queries) < MaxLog
    /\ LET d == IF cursor.debug
                THEN CursorWrapper_set_dirty(connection, sessions, _dirty)
                ELSE [exc |-> "None", args |-> <<>>, calls |-> <<>>,
                      sessions |-> sessions, connection |-> connection,
                      dirty |-> _dirty]
           ran == d.exc = "None"
           w == IF many THEN CursorWrapper_executemany(sql, out)
                ELSE CursorWrapper_execute(sql, out)
           entry == IF many THEN ExecutemanyEntry(sql, plist)
                    ELSE ExecuteEntry(sql, params)
           done == ran /\ out = DriverOk
       IN
       /\ connection' = d.connection
       /\ sessions' = d.sessions
       /\ _dirty' = d.dirty
       /\ queries' = IF cursor.debug /\ ran THEN DebugFinally(queries, entry, w.exc)
                     ELSE queries
       /\ rows' = IF ran THEN (IF done THEN res ELSE <<>>) ELSE rows
       /\ result' = IF ran THEN (IF done THEN res ELSE <<>>) ELSE result
       /\ yielded' = IF ran THEN <<>> ELSE yielded
       /\ traversals' = IF ran THEN 0 ELSE traversals
       /\ abandoned' = IF ran THEN FALSE ELSE abandoned
       /\ iterator' = IF ran THEN NoIterator ELSE iterator
       /\ uncommitted' = (uncommitted \/ (done /\ ~sessions[cursor.session].autocommit))
       /\ last' = [Called(IF many THEN "executemany" ELSE "execute") EXCEPT
                      !.exc = IF ran THEN w.exc ELSE d.exc,
                      !.args = IF ran THEN w.args ELSE d.args,
                      !.calls = d.calls \o (IF ran THEN <<"cursor.execute">> ELSE <<>>),
                      !.sql = sql, !.params = params, !.plist = plist,
                      !.sent = IF ran THEN w.sent ELSE <<>>,
                      !.derr = IF ran THEN out ELSE DriverOk,
                      !.debug = cursor.debug]
    /\ UNCHANGED <<settings_dict, transaction_state, cursor>>

Execute(sql, params, out, res) == Run(FALSE, sql, params, NoLast.plist, out, res)

Executemany(sql, plist, out, res) == Run(TRUE, sql, <<>>, plist, out, res)

\* iter(cursor_wrapper)
Iter ==
    /\ cursor.session # 0
    /\ traversals < MaxTraversals
    /\ LET i == CursorWrapper_iter(cursor, rows) IN
       /\ iterator' = i.iterator
       /\ rows' = i.rows
    /\ traversals' = traversals + 1
    /\ abandoned' = (abandoned \/ (iterator.kind # "none" /\ ~iterator.done))
    /\ last' = Called("iter")
    /\ UNCHANGED <<settings_dict, connection, sessions, transaction_state, _dirty,
                   queries, cursor, uncommitted, result, yielded>>

\* next(it) on the iterator __iter__ returned: a native iterator fetches the
\* driver cursor's next row, a list iterator walks what fetchall returned.
NextRow ==
    /\ iterator.kind # "none"
    /\ LET src == IF iterator.kind = "native" THEN rows ELSE iterator.buf IN
       IF src # <<>> /\ ~(iterator.kind = "list" /\ iterator.done)
       THEN /\ yielded' = Append(yielded, Head(src))
            /\ rows' = IF iterator.kind = "native" THEN Tail(rows) ELSE rows
            /\ iterator' = IF iterator.kind = "native" THEN iterator
                           ELSE [iterator EXCEPT !.buf = Tail(@)]
            /\ last' = [Called("next") EXCEPT !.row = Head(src)]
       ELSE /\ yielded' = yielded
            /\ rows' = rows
            /\ iterator' = [iterator EXCEPT !.done = TRUE]
            /\ last' = [Called("next") EXCEPT !.exc = "StopIteration"]
    /\ UNCHANGED <<settings_dict, connection, sessions, transaction_state, _dirty,
                   queries, cursor, uncommitted, result, traversals, abandoned>>

\* ---------------------------------------------------------------- specifications

\* The connection's life, transaction management and statements.
Next ==
    \/ Connect
    \/ Close
    \/ DriverDrop
    \/ IsUsable
    \/ \E managed \in BOOLEAN : EnterTransactionManagement(managed)
    \/ LeaveTransactionManagement
    \/ Commit
    \/ Rollback
    \/ \E debug \in BOOLEAN : CreateCursor(debug, FALSE)
    \/ \E sql \in SampleSql, out \in {DriverOk} \cup SampleErrors :
          Execute(sql, <<"1">>, out, <<>>)

Spec == Init /\ [][Next]_vars

\* Statements through plain and debug cursors, with every driver outcome.
NextCursor ==
    \/ Connect
    \/ Close
    \/ \E debug \in BOOLEAN : CreateCursor(debug, FALSE)
    \/ \E sql \in SampleSql, params \in SampleParams, out \in {DriverOk} \cup DriverErrors :
          Execute(sql, params, out, <<>>)
    \/ \E sql \in SampleSql, plist \in ParamLists, out \in {DriverOk} \cup DriverErrors :
          Executemany(sql, plist, out, <<>>)

SpecCursor == Init /\ [][NextCursor]_vars

\* Statements of every text up to MaxSqlLen characters.
NextSql ==
    \/ Connect
    \/ CreateCursor(FALSE, FALSE)
    \/ \E sql \in AllSql : Execute(sql, <<>>, DriverOk, <<>>)
    \/ \E sql \in AllSql : Executemany(sql, NoLast.plist, DriverOk, <<>>)

SpecSql == Init /\ [][NextSql]_vars

\* Statements and the iteration of their result sets.
NextIter ==
    \/ Connect
    \/ \E native \in BOOLEAN : CreateCursor(FALSE, native)
    \/ \E out \in {DriverOk} \cup SampleErrors, res \in RowSets :
          Execute(<<"?">>, <<>>, out, res)
    \/ Iter
    \/ NextRow

SpecIter == Init /\ [][NextIter]_vars

\* ---------------------------------------------------------------- claims

IsStatement == last.op \in {"execute", "executemany"}

\* The statement reached the driver cursor.
Delegated == IsStatement /\ last.calls # <<>> /\ last.calls[Len(last.calls)] = "cursor.execute"

\* C1: every driver error raised during execute / executemany reaches the
\* caller as IntegrityError when it is the driver's IntegrityError or its code
\* is in codes_for_integrityerror, and as DatabaseError otherwise, with the
\* args of the original.
C1_DriverErrorsReclassified ==
    (Delegated /\ last.derr.cls # "ok") =>
        /\ last.args = last.derr.args
        /\ last.exc = IF \/ last.derr.cls = "IntegrityError"
                         \/ last.derr.code \in codes_for_integrityerror
                      THEN "IntegrityError" ELSE "DatabaseError"

\* The positions of s where the marker %s starts.
Marks(s) == {i \in 1..(Len(s) - 1) : s[i] = "%" /\ s[i + 1] = "s"}

\* The positions of s that are not the second character of a marker.
Starts(s) == {i \in 1..Len(s) : (i - 1) \notin Marks(s)}

NthStart(s, j) == CHOOSE i \in Starts(s) : Cardinality({k \in Starts(s) : k <= i}) = j

\* s with every marker replaced by ? and every other character kept in place.
Translated(s) ==
    [j \in 1..Cardinality(Starts(s)) |->
        IF NthStart(s, j) \in Marks(s) THEN "?" ELSE s[NthStart(s, j)]]

\* C2: the text handed to the driver cursor is the SQL with every %s replaced
\* by ? and every other character kept in order; it is sent in one driver
\* call, a text without %s is sent unchanged, and translating the sent text
\* again changes nothing.
C2_PlaceholdersTranslated ==
    Delegated =>
        /\ last.sent = Translated(last.sql)
        /\ Marks(last.sent) = {}
        /\ (Marks(last.sql) = {} => last.sent = last.sql)
        /\ _replace_params(last.sent) = last.sent
        /\ last.calls = <<"cursor.execute">>

C2_Witness ==
    /\ last.op = "executemany"
    /\ last.sql = <<"%", "%", "s", "s">>
    /\ last.sent = <<"%", "?", "s">>
    /\ Delegated

\* C3: the dirty flag is set exactly while a statement executed with
\* autocommit off is pending, that is, not yet followed by a commit, a
\* rollback or the re-enabling of autocommit.
C3_DirtyTracksPendingStatements == _dirty = uncommitted

\* C4: leaving a block that was entered (on a wrapper that has connected):
\* with the dirty flag set, a rollback and then TransactionManagementError;
\* with the flag clear, no error and no rollback.
C4_LeaveRaisesOnlyWhenDirty ==
    (last.op = "leave" /\ last.depth > 0 /\ sessions # <<>>) =>
        IF last.dirty
        THEN /\ last.exc = "TransactionManagementError"
             /\ last.calls # <<>>
             /\ Head(last.calls) = "rollback"
        ELSE /\ last.exc = "None"
             /\ \A i \in DOMAIN last.calls : last.calls[i] # "rollback"

NoManagedBlock == \A i \in DOMAIN transaction_state : ~transaction_state[i]

\* C5: entering managed mode turns the session's autocommit off; whenever
\* leave_transaction_management has returned or raised, the session's
\* autocommit is on; and it is on whenever no managed block is open.
C5_AutocommitRestored ==
    /\ (last.op = "enter" /\ last.managed /\ last.exc = "None") =>
           (connection # 0 /\ ~sessions[connection].autocommit)
    /\ (last.op = "leave" /\ connection # 0) => sessions[connection].autocommit
    /\ (connection # 0 /\ NoManagedBlock) => sessions[connection].autocommit

C5_Witness ==
    /\ last.op = "leave"
    /\ last.pre # 0
    /\ ~last.autopre
    /\ last.depth = 2
    /\ ~NoManagedBlock
    /\ sessions[connection].autocommit

\* C6: is_usable returns a boolean and never raises, and returns false on a
\* wrapper that holds no session (never connected, or closed).
C6_IsUsableNeverRaises ==
    last.op = "is_usable" =>
        /\ last.exc = "None"
        /\ last.ret \in {"True", "False"}
        /\ (connection = 0 => last.ret = "False")

C8_MissingParameterIsConfigurationError ==
    (last.op = "connect" /\ \E k \in SettingKeys : settings_dict[k] = "") =>
        /\ last.exc = "ImproperlyConfigured"
        /\ \A i \in DOMAIN last.calls : last.calls[i] # "connect"
        /\ connection = 0

CountText == <<"0", "1", "2">>

SanitizedTuples == SeqsUpTo({sanitize_blob(v) : v \in ParamValues}, 2)

C10_IterationYieldsEveryRowOnce ==
    /\ IsPrefix(yielded, result)
    /\ (iterator.done /\ ~abandoned) => yielded = result

C10_Witness ==
    /\ iterator.kind = "list"
    /\ iterator.done
    /\ traversals = 2
    /\ ~abandoned
    /\ Len(result) = 2
    /\ yielded = result
    /\ last.op = "next"
    /\ last.exc = "StopIteration"

====
